---------------------------- MODULE Spec2Model ----------------------------
(***************************************************************************)
(* Model of the password-manager backend (src/pm-server/server.js) and of  *)
(* the Web Crypto helpers listed in src/README-secure-features.md.         *)
(*                                                                         *)
(* The backend is an Express application: three route handlers that read   *)
(* the whole users.json file, change the parsed object and write the whole *)
(* file back.  A handler runs to its next `await` without interruption, so *)
(* every handler is cut into the steps between its awaits:                 *)
(*      request -> (await loadUsers) -> loaded -> (await saveUsers) ->     *)
(*      saved.                                                             *)
(* The file read and the file write are each taken as one atomic event.    *)
(*                                                                         *)
(* "src/pm-server/copy of the Server/server - Copy.js" holds the same      *)
(* backend a second time and, from line 185 on, the backend with e-mail    *)
(* activation: accounts and vaults in db.json, a registration that mails   *)
(* an activation token and rolls back when the mail fails.  The variable   *)
(* `server` says which of the two backends the run is about.               *)
(***************************************************************************)
EXTENDS Naturals, FiniteSets, Sequences, TLC

\* ------------------------------------------------------------------ bounds
\* Requests the clients send in one run.
MaxRequests == 3
\* Calls of aesGcmEncryptBytes and hmac in one run.
MaxCalls == 2
\* Distinct values crypto.getRandomValues can return for one length.
NumRandom == 2
\* Times the clock of the activation backend advances in one run.
MaxTicks == 1

\* ------------------------------------------------------------ value domains
\* A field that is absent from a JSON body (JavaScript `undefined`).
Undefined == "undefined"
\* The two concurrent sessions of the backend.
Handlers == {"h1", "h2"}
\* Usernames that can own a record, and a username that names an inherited
\* property of every JavaScript object.
Names == {"alice", "bob"}
ProtoName == "__proto__"
Salts == {"s1", "s2"}
Verifiers == {"v1", "v2"}
Vaults == {"w1", "w2"}

VARIABLES
    users,       \* content of users.json: username -> {salt, verifier, vault}
    protoVault,  \* Object.prototype.vault of the server process
    pc,          \* per handler: "idle", "loadUsers", "saveUsers", "done"
    op,          \* per handler: the route being served
    body,        \* per handler: req.body
    local,       \* per handler: its `users` object (parsed copy of the file)
    status,      \* per handler: HTTP status of the response
    resp,        \* per handler: JSON body of the response
    stale,       \* per handler: the file was written since this handler read it
    given,       \* username -> what its acknowledged requests supplied
    nreq,        \* requests sent so far
    server,      \* the backend that runs: "pm" (server.js) or "activation"
    dbFile,      \* content of db.json: users, vaults, and the key order
    step,        \* per handler: "idle", "loadDB", "saveDB", "sendMail", ...
    path,        \* per handler: the route being served
    req,         \* per handler: req.body (req.query for /activate)
    db,          \* per handler: its `db` object (parsed copy of the file)
    statusCode,  \* per handler: HTTP status of the response
    reply,       \* per handler: body of the response
    sent,        \* requests sent so far to the activation backend
    now,         \* Date.now(), in hours
    sealed,      \* the aesGcmEncryptBytes calls made: key, input, output
    macs,        \* the hmac calls made: key, input, output
    result       \* the last call of a crypto helper: its arguments and outcome

serverVars ==
    <<users, protoVault, pc, op, body, local, status, resp, stale, given, nreq>>
actVars ==
    <<server, dbFile, step, path, req, db, statusCode, reply, sent, now>>
cryptoVars == <<sealed, macs, result>>
vars == <<serverVars, actVars, cryptoVars>>

\* ------------------------------------------------------- JavaScript objects
EmptyObject == [k \in {} |-> Undefined]

\* `!x` is false: x is a string (or absent), not the empty one
Truthy(v) == v # Undefined /\ v # ""

\* obj[key] = value
Put(obj, key, value) ==
    [k \in DOMAIN obj \cup {key} |-> IF k = key THEN value ELSE obj[k]]

\* req.body.<field>: an own property, else the one inherited from
\* Object.prototype.
Field(b, f) ==
    IF b[f] # Undefined THEN b[f]
    ELSE IF f = "vault" THEN protoVault
    ELSE Undefined

\* `users[username]` is truthy.  The lookup follows the prototype chain: it
\* finds an own property (a stored record, an object), else the property of
\* that name inherited from Object.prototype (for "__proto__" the object
\* Object.prototype itself).
Exists(obj, name) ==
    \/ name \in DOMAIN obj
    \/ name = ProtoName
    \/ name = "vault" /\ Truthy(protoVault)

\* loadUsers(): the parsed content of the file.
loadUsers == users

NoBody == [username |-> Undefined, salt |-> Undefined,
           verifier |-> Undefined, vault |-> Undefined]
NoResp == [error |-> Undefined]

NoCall == [fn |-> "none"]

\* ----------------------------------------------- the activation backend's data
\* `undefined` where the value is a token or a time.
Absent == 0
\* process.env.TOKEN_TTL_HOURS || 24
TokenTTLHours == 24

\* { users: {}, vaults: {} }; `keys` is the order in which Object.values
\* enumerates users (the order of insertion).
EmptyDB == [users |-> EmptyObject, vaults |-> EmptyObject, keys |-> <<>>]

\* A db.json left by an earlier run: one registered and activated account.
SeedDB ==
    [users |-> [n \in {"alice"} |->
                  [username |-> "alice", email |-> "a@x.io", salt |-> "s1",
                   verifier |-> "v1", isActivated |-> TRUE,
                   activationToken |-> Absent, activationExpiresAt |-> Absent]],
     vaults |-> [n \in {"alice"} |-> "w1"],
     keys |-> <<"alice">>]

\* A db.json left by an earlier run in which, at hour 0, "bob" registered and
\* has not yet followed the activation link.
PendingDB ==
    [users |-> [n \in {"alice", "bob"} |->
                  IF n = "alice" THEN SeedDB.users["alice"]
                  ELSE [username |-> "bob", email |-> "b@x.io", salt |-> "s2",
                        verifier |-> "v2", isActivated |-> FALSE,
                        activationToken |-> 1,
                        activationExpiresAt |-> TokenTTLHours]],
     vaults |-> [n \in {"alice", "bob"} |-> IF n = "alice" THEN "w1" ELSE "w2"],
     keys |-> <<"alice", "bob">>]

NoReq == [username |-> Undefined, email |-> Undefined, salt |-> Undefined,
          verifier |-> Undefined, vault |-> Undefined, token |-> Absent]

\* The state when backend s starts with d in db.json.
Start(s, d) ==
    /\ sealed = {}
    /\ macs = {}
    /\ result = NoCall
    /\ users = EmptyObject
    /\ protoVault = Undefined
    /\ pc = [h \in Handlers |-> "idle"]
    /\ op = [h \in Handlers |-> "none"]
    /\ body = [h \in Handlers |-> NoBody]
    /\ local = [h \in Handlers |-> EmptyObject]
    /\ status = [h \in Handlers |-> 0]
    /\ resp = [h \in Handlers |-> NoResp]
    /\ stale = [h \in Handlers |-> FALSE]
    /\ given = EmptyObject
    /\ nreq = 0
    /\ server = s
    /\ dbFile = d
    /\ step = [h \in Handlers |-> "idle"]
    /\ path = [h \in Handlers |-> "none"]
    /\ req = [h \in Handlers |-> NoReq]
    /\ db = [h \in Handlers |-> EmptyDB]
    /\ statusCode = [h \in Handlers |-> 0]
    /\ reply = [h \in Handlers |-> NoResp]
    /\ sent = 0
    /\ now = 0

Init == Start("pm", EmptyDB)

\* ------------------------------------------------------------------ inputs
\* Well-formed bodies, and for each route the bodies that lack one field.
Credentials == {<<"s1", "v1">>, <<"s2", "v2">>}
Fields == {"username", "salt", "verifier", "vault"}
Omit(b, f) == [b EXCEPT ![f] = Undefined]
FullBodies ==
    {[username |-> n, salt |-> c[1], verifier |-> c[2], vault |-> w] :
        n \in Names \cup {ProtoName}, c \in Credentials, w \in Vaults}
RegisterBodies ==
    FullBodies \cup
    {Omit([username |-> n, salt |-> "s1", verifier |-> "v1", vault |-> "w1"], f) :
        n \in Names, f \in Fields}
LoginBodies ==
    {[NoBody EXCEPT !.username = n] : n \in Names \cup {ProtoName, Undefined}}
UpdateBodies ==
    {[NoBody EXCEPT !.username = n, !.vault = w] :
        n \in Names \cup {ProtoName, Undefined}, w \in Vaults \cup {Undefined}}

Free(h) == pc[h] \in {"idle", "done"}

\* A request arrives at handler h of server.js: the fields every route
\* resets.
Accept(h, route, b) ==
    /\ server = "pm"
    /\ Free(h)
    /\ nreq < MaxRequests
    /\ nreq' = nreq + 1
    /\ op' = [op EXCEPT ![h] = route]
    /\ body' = [body EXCEPT ![h] = b]
    /\ local' = [local EXCEPT ![h] = EmptyObject]
    /\ stale' = [stale EXCEPT ![h] = FALSE]

\* res.status(code).json(json), the handler returns
Respond(h, code, json) ==
    /\ pc' = [pc EXCEPT ![h] = "done"]
    /\ status' = [status EXCEPT ![h] = code]
    /\ resp' = [resp EXCEPT ![h] = json]

\* `await loadUsers()` / `await saveUsers(users)`: the handler is suspended
Await(h, what) ==
    /\ pc' = [pc EXCEPT ![h] = what]
    /\ status' = [status EXCEPT ![h] = 0]
    /\ resp' = [resp EXCEPT ![h] = NoResp]

\* saveUsers(users): the file takes the content the handler serialized; every
\* other handler that read the file before now holds an outdated copy.
saveUsers(h) ==
    /\ users' = local[h]
    /\ stale' = [k \in Handlers |->
                   IF k # h /\ pc[k] = "saveUsers" THEN TRUE ELSE stale[k]]

\* ------------------------------------------------------------ POST /register
RegisterRequest(h, b) ==
    /\ Accept(h, "register", b)
    /\ IF ~Truthy(Field(b, "username")) \/ ~Truthy(Field(b, "salt"))
          \/ ~Truthy(Field(b, "verifier")) \/ ~Truthy(Field(b, "vault"))
       THEN Respond(h, 400, [error |-> "Missing fields"])
       ELSE Await(h, "loadUsers")
    /\ UNCHANGED <<users, protoVault, given>>
    /\ UNCHANGED <<actVars, cryptoVars>>

\* RegisterLoaded without the `if (users[username])` test: the record is
\* written over whatever the file holds.
RegisterLoadedNoCheck(h) ==
    /\ pc[h] = "loadUsers" /\ op[h] = "register"
    /\ local' = [local EXCEPT ![h] =
            Put(loadUsers, Field(body[h], "username"),
                [salt |-> Field(body[h], "salt"),
                 verifier |-> Field(body[h], "verifier"),
                 vault |-> Field(body[h], "vault")])]
    /\ Await(h, "saveUsers")
    /\ UNCHANGED <<users, protoVault, op, body, stale, given, nreq>>
    /\ UNCHANGED <<actVars, cryptoVars>>

RegisterLoaded(h) ==
    /\ pc[h] = "loadUsers" /\ op[h] = "register"
    /\ LET u == loadUsers
           username == Field(body[h], "username")
       IN  IF Exists(u, username)
           THEN /\ Respond(h, 409, [error |-> "User exists"])
                /\ local' = [local EXCEPT ![h] = EmptyObject]
           ELSE /\ local' = [local EXCEPT ![h] =
                       Put(u, username,
                           [salt |-> Field(body[h], "salt"),
                            verifier |-> Field(body[h], "verifier"),
                            vault |-> Field(body[h], "vault")])]
                /\ Await(h, "saveUsers")
    /\ UNCHANGED <<users, protoVault, op, body, stale, given, nreq>>
    /\ UNCHANGED <<actVars, cryptoVars>>

RegisterSaved(h) ==
    /\ pc[h] = "saveUsers" /\ op[h] = "register"
    /\ saveUsers(h)
    /\ Respond(h, 200, [ok |-> TRUE])
    /\ local' = [local EXCEPT ![h] = EmptyObject]
    /\ given' = Put(given, body[h].username,
                    [salt |-> body[h].salt, verifier |-> body[h].verifier,
                     vault |-> body[h].vault])
    /\ UNCHANGED <<protoVault, op, body, nreq>>
    /\ UNCHANGED <<actVars, cryptoVars>>

\* --------------------------------------------------------------- POST /login
LoginRequest(h, b) ==
    /\ Accept(h, "login", b)
    /\ IF ~Truthy(Field(b, "username"))
       THEN Respond(h, 400, [error |-> "Missing username"])
       ELSE Await(h, "loadUsers")
    /\ UNCHANGED <<users, protoVault, given>>
    /\ UNCHANGED <<actVars, cryptoVars>>

\* res.json(users[username]): the own properties of the object found, which
\* is the stored record or else Object.prototype.
Json(obj, name) ==
    IF name \in DOMAIN obj THEN obj[name] ELSE [vault |-> protoVault]

LoginLoaded(h) ==
    /\ pc[h] = "loadUsers" /\ op[h] = "login"
    /\ LET u == loadUsers
           username == Field(body[h], "username")
       IN  IF ~Exists(u, username)
           THEN Respond(h, 404, [error |-> "No such user"])
           ELSE Respond(h, 200, Json(u, username))
    /\ UNCHANGED <<users, protoVault, op, body, local, stale, given, nreq>>
    /\ UNCHANGED <<actVars, cryptoVars>>

\* --------------------------------------------------------- POST /updateVault
UpdateVaultRequest(h, b) ==
    /\ Accept(h, "updateVault", b)
    /\ IF ~Truthy(Field(b, "username")) \/ ~Truthy(Field(b, "vault"))
       THEN Respond(h, 400, [error |-> "Missing fields"])
       ELSE Await(h, "loadUsers")
    /\ UNCHANGED <<users, protoVault, given>>
    /\ UNCHANGED <<actVars, cryptoVars>>

UpdateVaultLoaded(h) ==
    /\ pc[h] = "loadUsers" /\ op[h] = "updateVault"
    /\ LET u == loadUsers
           username == Field(body[h], "username")
           vault == Field(body[h], "vault")
       IN  IF ~Exists(u, username)
           THEN /\ Respond(h, 404, [error |-> "No such user"])
                /\ UNCHANGED <<local, protoVault>>
           ELSE \* users[username].vault = vault
                /\ IF username \in DOMAIN u
                   THEN /\ local' = [local EXCEPT ![h] =
                               [u EXCEPT ![username].vault = vault]]
                        /\ UNCHANGED protoVault
                   ELSE /\ local' = [local EXCEPT ![h] = u]
                        /\ protoVault' = vault
                /\ Await(h, "saveUsers")
    /\ UNCHANGED <<users, op, body, stale, given, nreq>>
    /\ UNCHANGED <<actVars, cryptoVars>>

\* UpdateVaultSaved with lost-update detection: a handler whose copy of the
\* file is outdated answers 409 and writes nothing.
UpdateVaultSavedVersioned(h) ==
    /\ pc[h] = "saveUsers" /\ op[h] = "updateVault"
    /\ IF stale[h]
       THEN /\ Respond(h, 409, [error |-> "Conflict"])
            /\ UNCHANGED <<users, stale, given>>
       ELSE /\ saveUsers(h)
            /\ Respond(h, 200, [ok |-> TRUE])
            /\ given' = IF body[h].username \in DOMAIN given
                        THEN [given EXCEPT ![body[h].username].vault = body[h].vault]
                        ELSE given
    /\ local' = [local EXCEPT ![h] = EmptyObject]
    /\ UNCHANGED <<protoVault, op, body, nreq>>
    /\ UNCHANGED <<actVars, cryptoVars>>

UpdateVaultSaved(h) ==
    /\ pc[h] = "saveUsers" /\ op[h] = "updateVault"
    /\ saveUsers(h)
    /\ Respond(h, 200, [ok |-> TRUE])
    /\ local' = [local EXCEPT ![h] = EmptyObject]
    /\ given' = IF body[h].username \in DOMAIN given
                THEN [given EXCEPT ![body[h].username].vault = body[h].vault]
                ELSE given
    /\ UNCHANGED <<protoVault, op, body, nreq>>
    /\ UNCHANGED <<actVars, cryptoVars>>

\* --------------------------------------------------------------- behaviours
Next ==
    \E h \in Handlers :
        \/ \E b \in RegisterBodies : RegisterRequest(h, b)
        \/ RegisterLoaded(h)
        \/ RegisterSaved(h)
        \/ \E b \in LoginBodies : LoginRequest(h, b)
        \/ LoginLoaded(h)
        \/ \E b \in UpdateBodies : UpdateVaultRequest(h, b)
        \/ UpdateVaultLoaded(h)
        \/ UpdateVaultSaved(h)

Spec == Init /\ [][Next]_vars


\* Requests handled one after the other: a request is only sent once every
\* earlier one has been answered.
Quiescent == \A h \in Handlers : Free(h)

NextSeq ==
    \E h \in Handlers :
        \/ Quiescent /\ \E b \in RegisterBodies : RegisterRequest(h, b)
        \/ RegisterLoaded(h)
        \/ RegisterSaved(h)
        \/ Quiescent /\ \E b \in LoginBodies : LoginRequest(h, b)
        \/ LoginLoaded(h)
        \/ Quiescent /\ \E b \in UpdateBodies : UpdateVaultRequest(h, b)
        \/ UpdateVaultLoaded(h)
        \/ UpdateVaultSaved(h)

SpecSeq == Init /\ [][NextSeq]_vars

\* ======================================================= activation backend
\* String(username).toLowerCase(), on the names the clients use.
toLowerCase(s) == IF s = "Alice" THEN "alice" ELSE s

\* validator.isEmail(email): the well-formed addresses the clients use.
Emails == {"a@x.io", "b@x.io"}
isEmail(e) == e \in Emails

\* genToken(32): the hex string of 32 random bytes.
genToken == 1..NumRandom

\* hoursFromNow(h)
hoursFromNow(h) == now + h

\* loadDB(): the parsed content of db.json ({users:{}, vaults:{}} when there
\* is no file, which is what the file holds when the backend first starts).
loadDB == dbFile

\* `db.users[uname]` is truthy: an own property, else the one inherited from
\* Object.prototype.
HasUser(d, uname) == uname \in DOMAIN d.users \/ uname = ProtoName

\* `user.isActivated` of the object db.users[uname] found.
IsActivated(d, uname) ==
    IF uname \in DOMAIN d.users THEN d.users[uname].isActivated ELSE FALSE

\* db.users[uname] = entry; db.vaults[uname] = vault
AddUser(d, uname, entry, vault) ==
    [users |-> Put(d.users, uname, entry),
     vaults |-> Put(d.vaults, uname, vault),
     keys |-> IF uname \in DOMAIN d.users THEN d.keys ELSE Append(d.keys, uname)]

\* delete db.users[uname]; delete db.vaults[uname]
RemoveUser(d, uname) ==
    [users |-> [n \in DOMAIN d.users \ {uname} |-> d.users[n]],
     vaults |-> [n \in DOMAIN d.vaults \ {uname} |-> d.vaults[n]],
     keys |-> SelectSeq(d.keys, LAMBDA n : n # uname)]

\* Object.values(db.users).find(u => u.activationToken === token): the key of
\* the first entry that carries the token, Undefined when there is none.
FindByToken(d, token) ==
    LET hits == {i \in 1..Len(d.keys) : d.users[d.keys[i]].activationToken = token}
    IN  IF hits = {} THEN Undefined
        ELSE d.keys[CHOOSE i \in hits : \A j \in hits : i <= j]

\* ------------------------------------------------------------------ inputs
\* Accounts the clients ask for: a name and its e-mail address.  "Alice" is
\* "alice" in another case; "bob" comes with his own address and with alice's.
ActNames == {"alice", "Alice", "bob"}
Accounts == {<<"alice", "a@x.io">>, <<"Alice", "b@x.io">>,
             <<"bob", "b@x.io">>, <<"bob", "a@x.io">>, <<ProtoName, "b@x.io">>}
ActFields == {"username", "email", "salt", "verifier", "vault"}
ActBody(n, e, w) ==
    [NoReq EXCEPT !.username = n, !.email = e, !.salt = "s2",
                  !.verifier = "v2", !.vault = w]
ActRegisterBodies ==
    {ActBody(a[1], a[2], "w2") : a \in Accounts}
    \cup {[ActBody("bob", "b@x.io", "w2") EXCEPT ![f] = Undefined] : f \in ActFields}
    \cup {ActBody("bob", "nope", "w2")}
ActivateQueries == {[NoReq EXCEPT !.token = t] : t \in genToken \cup {Absent}}
ActLoginBodies ==
    {[NoReq EXCEPT !.username = n] : n \in ActNames \cup {ProtoName, Undefined}}
ActUpdateBodies ==
    {[NoReq EXCEPT !.username = n, !.vault = w] :
        n \in ActNames \cup {ProtoName}, w \in Vaults}
    \cup {[NoReq EXCEPT !.vault = "w1"], [NoReq EXCEPT !.username = "alice"]}

\* A request arrives at handler h.
ActAccept(h, r, q) ==
    /\ server = "activation"
    /\ step[h] \in {"idle", "done"}
    /\ sent < MaxRequests
    /\ sent' = sent + 1
    /\ path' = [path EXCEPT ![h] = r]
    /\ req' = [req EXCEPT ![h] = q]

\* res.status(c).json(j) / res.status(c).send(j) / res.redirect(j), and the
\* handler returns: its `db` object is gone.
ActRespond(h, c, j) ==
    /\ step' = [step EXCEPT ![h] = "done"]
    /\ statusCode' = [statusCode EXCEPT ![h] = c]
    /\ reply' = [reply EXCEPT ![h] = j]
    /\ db' = [db EXCEPT ![h] = EmptyDB]

\* the handler is suspended at its first `await`
ActAwaitLoad(h) ==
    /\ step' = [step EXCEPT ![h] = "loadDB"]
    /\ statusCode' = [statusCode EXCEPT ![h] = 0]
    /\ reply' = [reply EXCEPT ![h] = NoResp]
    /\ UNCHANGED db

\* the handler is suspended at a later `await`
ActAwait(h, what) ==
    /\ step' = [step EXCEPT ![h] = what]
    /\ UNCHANGED <<statusCode, reply>>

\* saveDB(db): the file takes the content the handler serialized.
saveDB(h) == dbFile' = db[h]

\* ------------------------------------------------------------ POST /register
ActRegisterRequest(h, b) ==
    /\ ActAccept(h, "register", b)
    /\ IF ~Truthy(b.username) \/ ~Truthy(b.email) \/ ~Truthy(b.salt)
          \/ ~Truthy(b.verifier) \/ ~Truthy(b.vault)
       THEN ActRespond(h, 400, [error |-> "Missing fields"])
       ELSE IF ~isEmail(b.email)
       THEN ActRespond(h, 400, [error |-> "Invalid email"])
       ELSE ActAwaitLoad(h)
    /\ UNCHANGED <<server, dbFile, now>>
    /\ UNCHANGED <<serverVars, cryptoVars>>

ActRegisterLoaded(h) ==
    /\ step[h] = "loadDB" /\ path[h] = "register"
    /\ LET d == loadDB
           uname == toLowerCase(req[h].username)
           existingUserByName == HasUser(d, uname)
           existingUserByEmail ==
               \E n \in DOMAIN d.users :
                   toLowerCase(d.users[n].email) = toLowerCase(req[h].email)
       IN  IF existingUserByName
           THEN /\ ActRespond(h, 409, [error |-> "Username already exists"])
           ELSE IF existingUserByEmail
           THEN /\ ActRespond(h, 409, [error |-> "Email already registered"])
           ELSE \E activationToken \in genToken :
                /\ db' = [db EXCEPT ![h] =
                      AddUser(d, uname,
                          [username |-> uname, email |-> req[h].email,
                           salt |-> req[h].salt, verifier |-> req[h].verifier,
                           isActivated |-> FALSE,
                           activationToken |-> activationToken,
                           activationExpiresAt |-> hoursFromNow(TokenTTLHours)],
                          req[h].vault)]
                /\ ActAwait(h, "saveDB")
    /\ UNCHANGED <<server, dbFile, path, req, sent, now>>
    /\ UNCHANGED <<serverVars, cryptoVars>>

\* saveDB has written the new account; the handler goes on to send the mail.
ActRegisterSaved(h) ==
    /\ step[h] = "saveDB" /\ path[h] = "register"
    /\ saveDB(h)
    /\ ActAwait(h, "sendMail")
    /\ UNCHANGED <<server, path, req, db, sent, now>>
    /\ UNCHANGED <<serverVars, cryptoVars>>

\* transporter.sendMail resolved
ActMailSent(h) ==
    /\ step[h] = "sendMail" /\ path[h] = "register"
    /\ ActRespond(h, 200, [ok |-> TRUE])
    /\ UNCHANGED <<server, dbFile, path, req, sent, now>>
    /\ UNCHANGED <<serverVars, cryptoVars>>

\* transporter.sendMail rejected: the catch block removes the account from
\* the handler's `db` object and saves that object.
ActMailFailed(h) ==
    /\ step[h] = "sendMail" /\ path[h] = "register"
    /\ db' = [db EXCEPT ![h] = RemoveUser(db[h], toLowerCase(req[h].username))]
    /\ ActAwait(h, "rollback")
    /\ UNCHANGED <<server, dbFile, path, req, sent, now>>
    /\ UNCHANGED <<serverVars, cryptoVars>>

ActRollbackSaved(h) ==
    /\ step[h] = "rollback" /\ path[h] = "register"
    /\ saveDB(h)
    /\ ActRespond(h, 500, [error |-> "Failed to send activation email"])
    /\ UNCHANGED <<server, path, req, sent, now>>
    /\ UNCHANGED <<serverVars, cryptoVars>>

\* ------------------------------------------------------------- GET /activate
ActivateRequest(h, q) ==
    /\ ActAccept(h, "activate", q)
    /\ IF q.token = Absent
       THEN ActRespond(h, 400, [text |-> "Invalid activation link"])
       ELSE ActAwaitLoad(h)
    /\ UNCHANGED <<server, dbFile, now>>
    /\ UNCHANGED <<serverVars, cryptoVars>>

ActivateLoaded(h) ==
    /\ step[h] = "loadDB" /\ path[h] = "activate"
    /\ LET d == loadDB
           userEntry == FindByToken(d, req[h].token)
       IN  IF userEntry = Undefined
           THEN /\ ActRespond(h, 400,
                       [text |-> "Invalid or already used activation token"])
           ELSE IF d.users[userEntry].activationExpiresAt < now
           THEN /\ ActRespond(h, 400, [text |-> "Activation link has expired"])
           ELSE /\ db' = [db EXCEPT ![h] =
                      [d EXCEPT !.users[userEntry].isActivated = TRUE,
                                !.users[userEntry].activationToken = Absent,
                                !.users[userEntry].activationExpiresAt = Absent]]
                /\ ActAwait(h, "saveDB")
    /\ UNCHANGED <<server, dbFile, path, req, sent, now>>
    /\ UNCHANGED <<serverVars, cryptoVars>>

ActivateSaved(h) ==
    /\ step[h] = "saveDB" /\ path[h] = "activate"
    /\ saveDB(h)
    /\ ActRespond(h, 302, [redirect |-> "password-manager.html#activated"])
    /\ UNCHANGED <<server, path, req, sent, now>>
    /\ UNCHANGED <<serverVars, cryptoVars>>

\* --------------------------------------------------------------- POST /login
ActLoginRequest(h, b) ==
    /\ ActAccept(h, "login", b)
    /\ IF ~Truthy(b.username)
       THEN ActRespond(h, 400, [error |-> "Missing username"])
       ELSE ActAwaitLoad(h)
    /\ UNCHANGED <<server, dbFile, now>>
    /\ UNCHANGED <<serverVars, cryptoVars>>

\* ActLoginLoaded without the `if (!user.isActivated)` test: every stored
\* account is answered with its record.
ActLoginLoadedUngated(h) ==
    /\ step[h] = "loadDB" /\ path[h] = "login"
    /\ LET d == loadDB
           uname == toLowerCase(req[h].username)
       IN  IF uname \notin DOMAIN d.users
           THEN ActRespond(h, 404, [error |-> "User not found"])
           ELSE ActRespond(h, 200,
                    [username |-> uname, email |-> d.users[uname].email,
                     salt |-> d.users[uname].salt,
                     verifier |-> d.users[uname].verifier,
                     vault |-> d.vaults[uname]])
    /\ UNCHANGED <<server, dbFile, path, req, sent, now>>
    /\ UNCHANGED <<serverVars, cryptoVars>>

ActLoginLoaded(h) ==
    /\ step[h] = "loadDB" /\ path[h] = "login"
    /\ LET d == loadDB
           uname == toLowerCase(req[h].username)
       IN  IF ~HasUser(d, uname)
           THEN ActRespond(h, 404, [error |-> "User not found"])
           ELSE IF ~IsActivated(d, uname)
           THEN ActRespond(h, 403, [error |-> "Account not activated"])
           ELSE ActRespond(h, 200,
                    [username |-> uname, email |-> d.users[uname].email,
                     salt |-> d.users[uname].salt,
                     verifier |-> d.users[uname].verifier,
                     vault |-> d.vaults[uname]])
    /\ UNCHANGED <<server, dbFile, path, req, sent, now>>
    /\ UNCHANGED <<serverVars, cryptoVars>>

\* --------------------------------------------------------- POST /updateVault
ActUpdateVaultRequest(h, b) ==
    /\ ActAccept(h, "updateVault", b)
    /\ IF ~Truthy(b.username) \/ ~Truthy(b.vault)
       THEN ActRespond(h, 400, [error |-> "Missing fields"])
       ELSE ActAwaitLoad(h)
    /\ UNCHANGED <<server, dbFile, now>>
    /\ UNCHANGED <<serverVars, cryptoVars>>

ActUpdateVaultLoaded(h) ==
    /\ step[h] = "loadDB" /\ path[h] = "updateVault"
    /\ LET d == loadDB
           uname == toLowerCase(req[h].username)
       IN  IF ~HasUser(d, uname) \/ ~IsActivated(d, uname)
           THEN /\ ActRespond(h, 403, [error |-> "Not allowed"])
           ELSE /\ db' = [db EXCEPT ![h] =
                      [d EXCEPT !.vaults = Put(d.vaults, uname, req[h].vault)]]
                /\ ActAwait(h, "saveDB")
    /\ UNCHANGED <<server, dbFile, path, req, sent, now>>
    /\ UNCHANGED <<serverVars, cryptoVars>>

ActUpdateVaultSaved(h) ==
    /\ step[h] = "saveDB" /\ path[h] = "updateVault"
    /\ saveDB(h)
    /\ ActRespond(h, 200, [ok |-> TRUE])
    /\ UNCHANGED <<server, path, req, sent, now>>
    /\ UNCHANGED <<serverVars, cryptoVars>>

\* ---------------------------------------------------------------- the clock
\* Date.now() advances, each time by an hour more than a token lives.
Tick ==
    /\ server = "activation"
    /\ now < MaxTicks * (TokenTTLHours + 1)
    /\ now' = now + TokenTTLHours + 1
    /\ UNCHANGED <<server, dbFile, step, path, req, db, statusCode, reply, sent>>
    /\ UNCHANGED <<serverVars, cryptoVars>>

\* --------------------------------------------------------------- behaviours
InitAct == \E d \in {EmptyDB, SeedDB} : Start("activation", d)

NextAct ==
    \/ Tick
    \/ \E h \in Handlers :
        \/ \E b \in ActRegisterBodies : ActRegisterRequest(h, b)
        \/ ActRegisterLoaded(h)
        \/ ActRegisterSaved(h)
        \/ ActMailSent(h)
        \/ ActMailFailed(h)
        \/ ActRollbackSaved(h)
        \/ \E q \in ActivateQueries : ActivateRequest(h, q)
        \/ ActivateLoaded(h)
        \/ ActivateSaved(h)
        \/ \E b \in ActLoginBodies : ActLoginRequest(h, b)
        \/ ActLoginLoaded(h)
        \/ \E b \in ActUpdateBodies : ActUpdateVaultRequest(h, b)
        \/ ActUpdateVaultLoaded(h)
        \/ ActUpdateVaultSaved(h)

SpecAct == InitAct /\ [][NextAct]_vars

\* The activation backend on a db.json that holds an activated account, or
\* that account and a pending one.
InitSeeded == \E d \in {SeedDB, PendingDB} : Start("activation", d)

SpecSeeded == InitSeeded /\ [][NextAct]_vars

\* Either backend: server.js on an empty users.json, or the activation
\* backend on a db.json that holds an activated account.
InitAll == Init \/ Start("activation", SeedDB)

NextAll == Next \/ NextAct

SpecAll == InitAll /\ [][NextAll]_vars

\* ------------------------------------------------------- reading the steps
\* Handler h resumes after `await loadUsers()` in this step.
Loaded(h, route) ==
    pc[h] = "loadUsers" /\ op[h] = route /\ pc'[h] # "loadUsers"

\* Handler h resumes after `await saveUsers(users)` in this step.
Saved(h, route) ==
    pc[h] = "saveUsers" /\ op[h] = route /\ pc'[h] # "saveUsers"

\* Handler h of the activation backend resumes after `await loadDB()`, and
\* after the `await saveDB(db)` that follows it.
ActLoaded(h, r) ==
    step[h] = "loadDB" /\ path[h] = r /\ step'[h] # "loadDB"

ActSaved(h, r) ==
    step[h] = "saveDB" /\ path[h] = r /\ step'[h] # "saveDB"

\* This step is handler h taking a new request.
Accepted(h, route) ==
    /\ nreq' = nreq + 1
    /\ op'[h] = route
    /\ \A k \in Handlers \ {h} :
          pc'[k] = pc[k] /\ op'[k] = op[k] /\ body'[k] = body[k]

\* Handler h has answered {ok: true} to a request of this route.
Acked(h, route) ==
    pc[h] = "done" /\ op[h] = route /\ status[h] = 200

\* ------------------------------------------------------------------ claims

\* C1: POST /register rejects duplicate usernames.  Whenever the store the
\* handler reads already holds a record for the requested username, the
\* request is answered 409 and the store (that record and every other one)
\* is left as it was.  On both backends; the activation backend keys its
\* records by the username in lower case.
C1_DuplicateRejected ==
    [][\A h \in Handlers :
          /\ (Loaded(h, "register") /\ body[h].username \in DOMAIN users)
             => /\ pc'[h] = "done"
                /\ status'[h] = 409
                /\ users' = users
          /\ (ActLoaded(h, "register")
                 /\ toLowerCase(req[h].username) \in DOMAIN dbFile.users)
             => /\ step'[h] = "done"
                /\ statusCode'[h] = 409
                /\ dbFile' = dbFile]_vars

\* A /register for a stored username has been answered 409.
C1_Witness ==
    \E h \in Handlers :
        /\ pc[h] = "done" /\ op[h] = "register" /\ status[h] = 409
        /\ body[h].username \in DOMAIN users

\* C2: username uniqueness in every execution.  For each username at most
\* one /register request is answered {ok: true}, and the salt and verifier
\* stored for that username are the ones that request sent.
C2_UsernameUnique ==
    /\ \A a, b \in Handlers :
          (a # b /\ Acked(a, "register") /\ Acked(b, "register"))
          => body[a].username # body[b].username
    /\ \A u \in DOMAIN users :
          \A h \in Handlers :
             (Acked(h, "register") /\ body[h].username = u)
             => /\ users[u].salt = body[h].salt
                /\ users[u].verifier = body[h].verifier

\* C3: requests with missing fields are rejected without touching the store.
\* A /register lacking username, salt, verifier or vault, a /login lacking
\* username and an /updateVault lacking username or vault are answered 400 and
\* leave the store as it was.
Required(route) ==
    CASE route = "register" -> Fields
      [] route = "login" -> {"username"}
      [] route = "updateVault" -> {"username", "vault"}

C3_MissingFieldsRejected ==
    [][\A h \in Handlers : \A route \in {"register", "login", "updateVault"} :
          (Accepted(h, route) /\ \E f \in Required(route) : body'[h][f] = Undefined)
          => /\ pc'[h] = "done"
             /\ status'[h] = 400
             /\ users' = users]_vars

\* C4: fetch returns what was stored.  With requests handled one after the
\* other, a /login for a registered username returns the salt and verifier
\* given in that username's successful /register and the vault given in its
\* most recent successful /updateVault (or in the /register if none).
C4_LoginReturnsGiven ==
    [][\A h \in Handlers :
          (Loaded(h, "login") /\ body[h].username \in DOMAIN given)
          => /\ status'[h] = 200
             /\ resp'[h] = given[body[h].username]]_vars

\* C5: a missing identity is a reported conflict.  /login and /updateVault for
\* a username without a record in the store answer 404, create no record for
\* it and leave the store as it was.
C5_MissingIdentity ==
    [][\A h \in Handlers : \A route \in {"login", "updateVault"} :
          (Loaded(h, route) /\ body[h].username \notin DOMAIN users)
          => /\ pc'[h] = "done"
             /\ status'[h] = 404
             /\ users' = users]_vars

\* C6: a successful /updateVault(username, vault) replaces that user's vault
\* wholesale with the submitted value and leaves the user's salt and verifier
\* as they were; no request ever changes the salt or verifier of a registered
\* user.
C6_CredentialsImmutable ==
    [][/\ \A h \in Handlers :
             (Saved(h, "updateVault") /\ body[h].username \in DOMAIN users
                 /\ body[h].vault # Undefined)
             => /\ status'[h] = 200
                /\ body[h].username \in DOMAIN users'
                /\ users'[body[h].username] =
                       [users[body[h].username] EXCEPT !.vault = body[h].vault]
       /\ \A u \in DOMAIN users \cap DOMAIN users' :
             /\ users'[u].salt = users[u].salt
             /\ users'[u].verifier = users[u].verifier]_vars

\* C7: concurrent vault updates are last-writer-wins with no lost-update
\* detection.  Every /updateVault for a registered username that submits a
\* vault is answered {ok: true}, never a conflict, also when another handler
\* wrote the file after this one read it; and the vault stored once its
\* saveUsers completes is the one it submitted, so the vault finally stored is
\* that of the handler whose saveUsers completes last.  On both backends; on
\* the activation backend the handlers that reach saveDB are those that found
\* the account activated.
C7_LastWriterWins ==
    [][\A h \in Handlers :
          /\ (Saved(h, "updateVault") /\ body[h].username \in DOMAIN local[h]
                 /\ body[h].vault # Undefined)
             => /\ pc'[h] = "done"
                /\ status'[h] = 200
                /\ resp'[h] = [ok |-> TRUE]
                /\ body[h].username \in DOMAIN users'
                /\ users'[body[h].username].vault = body[h].vault
          /\ ActSaved(h, "updateVault")
             => /\ step'[h] = "done"
                /\ statusCode'[h] = 200
                /\ reply'[h] = [ok |-> TRUE]
                /\ toLowerCase(req[h].username) \in DOMAIN dbFile'.vaults
                /\ dbFile'.vaults[toLowerCase(req[h].username)] = req[h].vault]_vars

\* Two /updateVault requests for the same registered username interleaved:
\* both are answered {ok: true}, handler a saved with an outdated copy of the
\* file after handler b saved, and a's vault is the one stored.
C7_Witness ==
    \E a, b \in Handlers :
        /\ a # b
        /\ Acked(a, "updateVault") /\ Acked(b, "updateVault")
        /\ body[a].username = body[b].username
        /\ body[a].username \in DOMAIN users
        /\ body[a].vault # body[b].vault
        /\ stale[a]
        /\ users[body[a].username].vault = body[a].vault

\* ------------------------------------------------------------- Web Crypto
\* The helpers of /js/crypto-utils.js call crypto.subtle.  The primitives are
\* taken as ideal: PBKDF2 is a function of its inputs without collisions, an
\* AES-GCM ciphertext opens only under the key and iv that made it, an HMAC
\* tag verifies only under the key and data that made it.  A value is the
\* term that built it.

\* The outcome of a call: a value, or the exception it throws.
Ok(v) == [threw |-> "none", value |-> v]
Throw(e) == [threw |-> e, value |-> Undefined]

\* Default iteration count, and the length of an IV in bytes.
Iterations == 150000
IvLength == 12

\* PBKDF2-HMAC-SHA-256(password, salt, iterations): `length` bits.
PBKDF2(password, salt, iterations, length) ==
    [password |-> password, salt |-> salt, iterations |-> iterations,
     length |-> length]

pbkdf2Key(password, salt, iterations, usage) ==
    [alg |-> "AES-GCM", raw |-> PBKDF2(password, salt, iterations, 256),
     usages |-> usage]

\* pbkdf2Bits(password, salt, iterations): deriveBits(..., 256) as bytes.
pbkdf2Bits(password, salt, iterations) ==
    PBKDF2(password, salt, iterations, 256)

\* Both deriveKey calls take the same `params` and the same `material`, and
\* ask for 256 bits; the algorithm of the derived key is no input of PBKDF2.
deriveEncAndMac(password, salt, iterations) ==
    [aesKey |-> [alg |-> "AES-GCM",
                 raw |-> PBKDF2(password, salt, iterations, 256),
                 usages |-> {"encrypt", "decrypt"}],
     macKey |-> [alg |-> "HMAC",
                 raw |-> PBKDF2(password, salt, iterations, 256),
                 usages |-> {"sign", "verify"}]]

\* randomBytes(n): the values crypto.getRandomValues may return.
randomBytes(n) == {[len |-> n, r |-> i] : i \in 1..NumRandom}

\* crypto.subtle.encrypt({name:'AES-GCM', iv}, key, data)
SubtleEncrypt(key, iv, data) ==
    IF key.alg # "AES-GCM" \/ "encrypt" \notin key.usages
    THEN Throw("InvalidAccessError")
    ELSE Ok([k |-> key.raw, iv |-> iv, pt |-> data, intact |-> TRUE])

\* crypto.subtle.decrypt({name:'AES-GCM', iv}, key, ct): the plaintext when
\* the tag verifies, else it rejects with OperationError.
SubtleDecrypt(key, iv, ct) ==
    IF key.alg # "AES-GCM" \/ "decrypt" \notin key.usages
    THEN Throw("InvalidAccessError")
    ELSE IF ct.intact /\ ct.k = key.raw /\ ct.iv = iv
    THEN Ok(ct.pt)
    ELSE Throw("OperationError")

\* crypto.subtle.sign('HMAC', key, data)
SubtleSign(key, data) ==
    IF key.alg # "HMAC" \/ "sign" \notin key.usages
    THEN Throw("InvalidAccessError")
    ELSE Ok([k |-> key.raw, over |-> data, intact |-> TRUE])

\* crypto.subtle.verify('HMAC', key, signature, data)
SubtleVerify(key, signature, data) ==
    IF key.alg # "HMAC" \/ "verify" \notin key.usages
    THEN Throw("InvalidAccessError")
    ELSE Ok(signature.intact /\ signature.k = key.raw /\ signature.over = data)

\* Some bit of a ciphertext or of a tag changed.
Tamper(x) == [x EXCEPT !.intact = FALSE]

\* aesGcmEncryptJSON(obj, key) as listed: its body is
\*     const ivB = ub64(iv); const ctB = ub64(ciphertext); ...decrypt...
\* and neither `iv` nor `ciphertext` is a parameter or a binding of the
\* module, so evaluating the first statement throws ReferenceError.
ModuleBindings == {"b64", "ub64", "enc", "dec", "crypto", "JSON"}
aesGcmEncryptJSON(obj, key) ==
    IF "iv" \in {"obj", "key"} \cup ModuleBindings
    THEN Throw("OperationError")
    ELSE Throw("ReferenceError")

\* aesGcmEncryptBytes(bytes, key): one outcome per value of the random iv.
aesGcmEncryptBytes(bytes, key) ==
    {LET ct == SubtleEncrypt(key, iv, bytes)
     IN  IF ct.threw = "none"
         THEN Ok([iv |-> iv, ciphertext |-> ct.value])
         ELSE ct
     : iv \in randomBytes(IvLength)}

\* aesGcmDecryptBytes with a cipher mode that carries no tag: whatever the
\* bytes decrypt to is returned.
aesGcmDecryptBytesNoTag(iv, ct, key) == Ok(ct.pt)

aesGcmDecryptBytes(iv, ct, key) == SubtleDecrypt(key, iv, ct)

hmac(macKey, bytes) == SubtleSign(macKey, bytes)

hmacVerify(macKey, bytes, sig) == SubtleVerify(macKey, sig, bytes)

\* ------------------------------------------------------------ crypto inputs
Passwords == {"p1", "p2"}
KdfSalts == {"saltA"}
IterationCounts == {Iterations, 2 * Iterations}
Bytes == {"b1", "b2"}
Entries == {"E1", "E2"}
AesKeys ==
    {pbkdf2Key(p, s, Iterations, {"encrypt", "decrypt"}) :
        p \in Passwords, s \in KdfSalts}
MacKeys ==
    {deriveEncAndMac(p, s, Iterations).macKey : p \in Passwords, s \in KdfSalts}
\* Ciphertexts and tags a caller can hold: those produced, as they are or
\* altered.
Ciphertexts ==
    LET made == {e.out.ciphertext : e \in sealed}
    IN  made \cup {Tamper(c) : c \in made}
Tags ==
    LET made == {m.out : m \in macs}
    IN  made \cup {Tamper(t) : t \in made}

Calls == Cardinality(sealed) + Cardinality(macs)

\* ------------------------------------------------------------- crypto calls
CallEncryptJSON(obj, key) ==
    /\ result' = [fn |-> "aesGcmEncryptJSON", obj |-> obj, key |-> key,
                  out |-> aesGcmEncryptJSON(obj, key)]
    /\ UNCHANGED <<sealed, macs>>
    /\ UNCHANGED <<serverVars, actVars>>

CallEncryptBytes(bytes, key) ==
    /\ Calls < MaxCalls
    /\ \E out \in aesGcmEncryptBytes(bytes, key) :
          /\ result' = [fn |-> "aesGcmEncryptBytes", bytes |-> bytes,
                        key |-> key, out |-> out]
          /\ sealed' = IF out.threw = "none"
                       THEN sealed \cup
                            {[key |-> key, bytes |-> bytes, out |-> out.value]}
                       ELSE sealed
    /\ UNCHANGED macs
    /\ UNCHANGED <<serverVars, actVars>>

CallDecryptBytes(iv, ct, key) ==
    /\ result' = [fn |-> "aesGcmDecryptBytes", iv |-> iv, ct |-> ct,
                  key |-> key, out |-> aesGcmDecryptBytes(iv, ct, key)]
    /\ UNCHANGED <<sealed, macs>>
    /\ UNCHANGED <<serverVars, actVars>>

CallHmac(macKey, bytes) ==
    /\ Calls < MaxCalls
    /\ LET out == hmac(macKey, bytes)
       IN  /\ result' = [fn |-> "hmac", key |-> macKey, bytes |-> bytes,
                         out |-> out]
           /\ macs' = IF out.threw = "none"
                      THEN macs \cup
                           {[key |-> macKey, bytes |-> bytes, out |-> out.value]}
                      ELSE macs
    /\ UNCHANGED sealed
    /\ UNCHANGED <<serverVars, actVars>>

CallHmacVerify(macKey, bytes, sig) ==
    /\ result' = [fn |-> "hmacVerify", key |-> macKey, bytes |-> bytes,
                  sig |-> sig, out |-> hmacVerify(macKey, bytes, sig)]
    /\ UNCHANGED <<sealed, macs>>
    /\ UNCHANGED <<serverVars, actVars>>

\* A page derives the keys of a file envelope.
CallDeriveEncAndMac(password, salt, iterations) ==
    /\ result' = [fn |-> "deriveEncAndMac", password |-> password,
                  salt |-> salt, iterations |-> iterations,
                  out |-> deriveEncAndMac(password, salt, iterations)]
    /\ UNCHANGED <<sealed, macs>>
    /\ UNCHANGED <<serverVars, actVars>>

\* A page derives the verifier it registers and the key of its vault.
CallPbkdf2(password, salt, iterations) ==
    /\ result' = [fn |-> "pbkdf2", password |-> password, salt |-> salt,
                  iterations |-> iterations,
                  verifier |-> pbkdf2Bits(password, salt, iterations),
                  key |-> pbkdf2Key(password, salt, iterations,
                                    {"encrypt", "decrypt"})]
    /\ UNCHANGED <<sealed, macs>>
    /\ UNCHANGED <<serverVars, actVars>>

NextCrypto ==
    \/ \E p \in Passwords, s \in KdfSalts, it \in IterationCounts :
          CallDeriveEncAndMac(p, s, it)
    \/ \E p \in Passwords, s \in KdfSalts, it \in IterationCounts :
          CallPbkdf2(p, s, it)
    \/ \E obj \in Entries, key \in AesKeys : CallEncryptJSON(obj, key)
    \/ \E bytes \in Bytes, key \in AesKeys : CallEncryptBytes(bytes, key)
    \/ \E iv \in randomBytes(IvLength), ct \in Ciphertexts, key \in AesKeys :
          CallDecryptBytes(iv, ct, key)
    \/ \E macKey \in MacKeys, bytes \in Bytes : CallHmac(macKey, bytes)
    \/ \E macKey \in MacKeys, bytes \in Bytes, sig \in Tags :
          CallHmacVerify(macKey, bytes, sig)

SpecCrypto == Init /\ [][NextCrypto]_vars

\* The encryptions whose key, iv and ciphertext are exactly the arguments of
\* the last aesGcmDecryptBytes call.
Matching ==
    {e \in sealed : /\ e.key = result.key
                    /\ e.out.iv = result.iv
                    /\ e.out.ciphertext = result.ct}

\* C8: vault codec round trip.  Encrypting an entry collection E under a key
\* derived from a password and salt gives an {iv, ciphertext} pair that
\* decrypts under the same key to exactly E; and aesGcmDecryptBytes applied to
\* the output of aesGcmEncryptBytes(bytes, key) yields bytes.
C8_RoundTrip ==
    /\ result.fn = "aesGcmEncryptJSON"
       => /\ result.out.threw = "none"
          /\ LET pt == aesGcmDecryptBytes(result.out.value.iv,
                                          result.out.value.ciphertext, result.key)
             IN  pt.threw = "none" /\ pt.value = result.obj
    /\ result.fn = "aesGcmDecryptBytes"
       => \A e \in Matching :
             result.out.threw = "none" /\ result.out.value = e.bytes

C11_KeySeparation ==
    result.fn = "deriveEncAndMac"
    => result.out.aesKey.raw # result.out.macKey.raw

\* C12: verifier/key separation in the vault codec.  For every password,
\* salt and iteration count, the verifier bytes (pbkdf2Bits) are not the raw
\* material of the encryption key (pbkdf2Key) derived from the same inputs.
C12_VerifierSeparation ==
    result.fn = "pbkdf2" => result.verifier # result.key.raw

\* ------------------------------------------- claims on the activation backend
\* The accounts of a store that are activated, and those still pending.
Activated(d) == {n \in DOMAIN d.users : d.users[n].isActivated}
Pending(d) == DOMAIN d.users \ Activated(d)

\* Handler h writes db.json in this step.
Writes(h) ==
    step[h] \in {"saveDB", "rollback"} /\ step'[h] # step[h]

Stores == {dbFile} \cup {db[h] : h \in Handlers}

\* Token t belongs to at most one account, whichever store one looks at.
OneRegistration(t) ==
    \A d \in Stores, e \in Stores :
        \A n \in DOMAIN d.users, m \in DOMAIN e.users :
            (d.users[n].activationToken = t /\ e.users[m].activationToken = t)
            => n = m

\* An /activate with token t has been answered with the redirect.
Used(t) ==
    \E k \in Handlers :
        /\ step[k] = "done" /\ path[k] = "activate" /\ statusCode[k] = 302
        /\ req[k].token = t

\* C14: activation tokens are single-use and expire.  An /activate whose
\* token matches an unexpired pending registration stores that account as
\* activated with its token cleared; an /activate that reads the store after
\* an /activate with the same token succeeded is answered 400 and changes
\* nothing (the token being that of one registration); and an /activate with
\* an expired or unknown token is answered 400 and leaves db.json, so every
\* isActivated flag, as it was.
C14_TokensSingleUse ==
    [][\A h \in Handlers :
          LET t == req[h].token
              n == FindByToken(dbFile, t)
          IN  /\ (ActLoaded(h, "activate") /\ n # Undefined
                    /\ ~(dbFile.users[n].activationExpiresAt < now))
                 => /\ step'[h] = "saveDB"
                    /\ db'[h].users[n].isActivated
                    /\ db'[h].users[n].activationToken = Absent
                    /\ \A m \in DOMAIN dbFile.users \ {n} :
                          db'[h].users[m] = dbFile.users[m]
              /\ ActSaved(h, "activate")
                 => dbFile' = db[h] /\ statusCode'[h] = 302
              /\ (ActLoaded(h, "activate") /\ Used(t) /\ OneRegistration(t))
                 => /\ step'[h] = "done"
                    /\ statusCode'[h] = 400
                    /\ dbFile' = dbFile
              /\ (ActLoaded(h, "activate")
                    /\ (n = Undefined \/ dbFile.users[n].activationExpiresAt < now))
                 => /\ step'[h] = "done"
                    /\ statusCode'[h] = 400
                    /\ dbFile' = dbFile]_vars

\* C15: registration rollback on e-mail failure.  When sending the activation
\* mail failed, the store the handler goes on to save holds neither a users
\* entry nor a vaults entry for that username, and holds, unchanged, the
\* record and the vault of every other account that is in db.json at that
\* moment, whatever other handlers did during the send; that store is what
\* its saveDB writes, and the /register is answered 500.
C15_RollbackKeepsOthers ==
    [][\A h \in Handlers :
          LET u == toLowerCase(req[h].username)
          IN  /\ (step[h] = "sendMail" /\ step'[h] = "rollback")
                 => /\ u \notin DOMAIN db'[h].users
                    /\ u \notin DOMAIN db'[h].vaults
                    /\ \A m \in DOMAIN dbFile.users \ {u} :
                          /\ m \in DOMAIN db'[h].users
                          /\ db'[h].users[m] = dbFile.users[m]
                          /\ m \in DOMAIN db'[h].vaults
                          /\ db'[h].vaults[m] = dbFile.vaults[m]
              /\ (step[h] = "rollback" /\ step'[h] # "rollback")
                 => /\ statusCode'[h] = 500
                    /\ dbFile' = db[h]]_vars

\* C16: cross-user isolation of the store of server.js.  A /register or
\* /updateVault for username A, when it saves, neither removes nor alters the
\* stored record of any other username B; and once B's /register has been
\* answered {ok: true}, B's record is in the store and its vault is the one of
\* B's last acknowledged write.  Stated for the runs in which no request has
\* written to Object.prototype (C5), so that what fails is the isolation.
C16_CrossUserIsolation ==
    [][protoVault' = Undefined
       => /\ \A h \in Handlers :
               (Saved(h, "register") \/ Saved(h, "updateVault"))
               => \A B \in DOMAIN users \ {body[h].username} :
                     B \in DOMAIN users' /\ users'[B] = users[B]
          /\ \A B \in DOMAIN given' :
               B \in DOMAIN users' /\ users'[B].vault = given'[B].vault]_vars

=============================================================================
